---- MODULE Spec2Model ----
(***************************************************************************)
(* A model of kiss.agents.claudecodingagent.ClaudeCodingAgent: the path    *)
(* whitelist check of permission_handler, the message loop of run, and the *)
(* result ladder of _parse_result_json.                                    *)
(*                                                                         *)
(* Path strings are sequences of characters over Chars (no NUL).  A        *)
(* resolved path (pathlib.Path.resolve() on POSIX, on a file system        *)
(* without symbolic links) is the sequence of its components, the root     *)
(* being <<>>.                                                             *)
(***************************************************************************)
EXTENDS Integers, Sequences, FiniteSets, TLC

VARIABLES
    readable_paths,   \* self.readable_paths
    writable_paths,   \* self.writable_paths
    call,             \* the permission request in hand and its outcome
    raw,              \* the argument of a call of _parse_result_json
    parsed,           \* whether that call has returned, and its value
    pc,               \* where run is: "idle", "running" (in its loop), "done"
                      \* (returned) or "raised" (left by an exception)
    stream,           \* the messages query() has yielded and run has handled
    final_result,     \* run's local final_result, returned when pc = "done"
    trace             \* the lines printed so far

vars == <<readable_paths, writable_paths, call, raw, parsed,
          pc, stream, final_result, trace>>
arbiterVars == <<readable_paths, writable_paths, call>>
extractVars == <<raw, parsed>>
runVars == <<pc, stream, final_result, trace>>

----------------------------------------------------------------------------
(* Bounds *)

MaxPathLen == 4
MaxTextLen == 5
MaxEvents == 3

----------------------------------------------------------------------------
(* Strings and paths *)

Chars == {"/", "a", "."}

RECURSIVE StringsUpTo(_, _)
StringsUpTo(alphabet, n) ==
    IF n = 0 THEN {<<>>}
    ELSE LET shorter == StringsUpTo(alphabet, n - 1)
         IN  shorter \cup {Append(s, c) : s \in {t \in shorter : Len(t) = n - 1},
                                          c \in alphabet}

PathStrings == StringsUpTo(Chars, MaxPathLen)

\* The process's working directory, /a: relative paths resolve against it.
Cwd == << <<"a">> >>

\* s.split("/"): the components of a path string, empty ones included.
RECURSIVE Split(_)
Split(s) ==
    IF \A i \in 1..Len(s) : s[i] # "/" THEN <<s>>
    ELSE LET i == CHOOSE k \in 1..Len(s) :
                      s[k] = "/" /\ \A j \in 1..(k - 1) : s[j] # "/"
         IN  <<SubSeq(s, 1, i - 1)>> \o Split(SubSeq(s, i + 1, Len(s)))

\* One component applied to the path resolved so far: "" and "." are
\* dropped, ".." goes to the parent (the root is its own parent), any
\* other name is appended.
Step(acc, comp) ==
    IF comp = <<>> \/ comp = <<".">> THEN acc
    ELSE IF comp = <<".", ".">>
         THEN (IF acc = <<>> THEN <<>> ELSE SubSeq(acc, 1, Len(acc) - 1))
         ELSE Append(acc, comp)

RECURSIVE Walk(_, _)
Walk(acc, comps) ==
    IF comps = <<>> THEN acc ELSE Walk(Step(acc, Head(comps)), Tail(comps))

\* Path(s).resolve(): absolute, normalised, no "." or ".." left.
Resolve(s) ==
    Walk(IF s # <<>> /\ s[1] = "/" THEN <<>> ELSE Cwd, Split(s))

\* Path.parents: the strict ancestors of a resolved path.
Parents(p) == {SubSeq(p, 1, n) : n \in 0..(Len(p) - 1)}

\* A faulty variant of _is_subpath: containment by string prefix of the
\* rendered paths (str(target).startswith(str(p))).
Render(p) ==
    LET RECURSIVE R(_)
        R(q) == IF q = <<>> THEN <<>> ELSE <<"/">> \o Head(q) \o R(Tail(q))
    IN  IF p = <<>> THEN <<"/">> ELSE R(p)

IsSubpathByStringPrefix(target, whitelist) ==
    \E p \in whitelist :
        /\ Len(Render(p)) <= Len(Render(target))
        /\ SubSeq(Render(target), 1, Len(Render(p))) = Render(p)

\* ClaudeCodingAgent._is_subpath
_is_subpath(target, whitelist) ==
    \E p \in whitelist : target = p \/ p \in Parents(target)

----------------------------------------------------------------------------
(* Tool calls *)

\* The values a tool parameter may hold: a string, None, an integer, or no
\* entry under that key at all.
StrVal(s) == [t |-> "str", s |-> s, n |-> 0]
None == [t |-> "none", s |-> <<>>, n |-> 0]
IntVal(n) == [t |-> "int", s |-> <<>>, n |-> n]
Missing == [t |-> "missing", s |-> <<>>, n |-> 0]

\* bool(v)
Truthy(v) ==
    \/ v.t = "str" /\ v.s # <<>>
    \/ v.t = "int" /\ v.n # 0

\* A faulty variant of Get: a missing key defaults to "."
\* (dict.get(key, ".")).
GetDefaultDot(tool_input, key) ==
    IF tool_input[key].t = "missing" THEN StrVal(<<".">>) ELSE tool_input[key]

\* dict.get(key)
Get(tool_input, key) ==
    IF tool_input[key].t = "missing" THEN None ELSE tool_input[key]

\* A faulty variant of Or: the second operand is preferred.
OrSecondFirst(a, b) == IF Truthy(b) THEN b ELSE a

\* a or b
Or(a, b) == IF Truthy(a) THEN a ELSE b

\* Faulty variants of the tool categories: a tool left out of its list.
ReadToolsWithoutGrep == {"Read", "Glob"}
WriteToolsWithoutMultiEdit == {"Write", "Edit"}

ReadTools == {"Read", "Grep", "Glob"}
WriteTools == {"Write", "Edit", "MultiEdit"}
\* The tools the runtime may ask about: BUILTIN_TOOLS and the custom tool
\* the system prompt names.
ToolNames == {"Read", "Write", "Edit", "MultiEdit", "Glob", "Grep", "Bash",
              "WebSearch", "WebFetch", "read_project_file"}

NoMessage == [head |-> "", path |-> <<>>, tail |-> ""]
Allow == [behavior |-> "allow", message |-> NoMessage]
Deny(path_str, tail) ==
    [behavior |-> "deny",
     message |-> [head |-> "Access Denied: ", path |-> path_str, tail |-> tail]]
\* The call ends in an exception instead of a decision.
Raise == [behavior |-> "raise", message |-> NoMessage]

\* ClaudeCodingAgent.permission_handler
permission_handler(tool_name, tool_input, readable, writable) ==
    LET path_str == Or(Get(tool_input, "file_path"), Get(tool_input, "path"))
    IN  IF ~Truthy(path_str) THEN Allow
        ELSE IF path_str.t # "str" THEN Raise   \* Path(path_str): TypeError
        ELSE LET target_path == Resolve(path_str.s)
             IN  IF tool_name \in ReadTools
                 THEN (IF readable = {} \/ _is_subpath(target_path, readable)
                       THEN Allow
                       ELSE Deny(path_str.s, " is not in readable whitelist."))
                 ELSE IF tool_name \in WriteTools
                 THEN (IF writable = {} \/ _is_subpath(target_path, writable)
                       THEN Allow
                       ELSE Deny(path_str.s, " is not in writable whitelist."))
                 ELSE Allow

----------------------------------------------------------------------------
(* Text *)

\* A text is a sequence of pieces, each a run of n characters: a code fence,
\* the tag json, a newline, the text of a JSON value, or n letters.  A
\* piece cut by slicing keeps its kind and the characters that are left.
\* Fence is the three backquotes that open or close a code block.
Fence == [c |-> "fence", n |-> 3]
JsonTag == [c |-> "json", n |-> 4]
Newline == [c |-> "\n", n |-> 1]
\* {"status": true, "summary": "ok", "insights": ""}
TaskText == [c |-> "task", n |-> 49]
NullText == [c |-> "null", n |-> 4]
ListText == [c |-> "[1]", n |-> 3]
\* 100000 opening brackets: arrays nested deeper than the decoder can recurse.
DeepText == [c |-> "[[[", n |-> 100000]
\* {"status": true, "summary": "   and   ", "insights": ""}   : the two ends
\* of a TaskResult in JSON whose summary is the text in between.
ObjHead == [c |-> "{head", n |-> 29]
ObjTail == [c |-> "tail}", n |-> 18]
Letters(n) == [c |-> "x", n |-> n]

\* len(text)
RECURSIVE StrLen(_)
StrLen(text) == IF text = <<>> THEN 0 ELSE Head(text).n + StrLen(Tail(text))

\* text[:k]
RECURSIVE TakeChars(_, _)
TakeChars(text, k) ==
    IF text = <<>> \/ k <= 0 THEN <<>>
    ELSE IF Head(text).n <= k
         THEN <<Head(text)>> \o TakeChars(Tail(text), k - Head(text).n)
         ELSE <<[Head(text) EXCEPT !.n = k]>>

\* str.strip(): leading and trailing whitespace removed.
RECURSIVE LStrip(_)
LStrip(text) ==
    IF text # <<>> /\ Head(text) = Newline THEN LStrip(Tail(text)) ELSE text
RECURSIVE RStrip(_)
RStrip(text) ==
    IF text # <<>> /\ text[Len(text)] = Newline
    THEN RStrip(SubSeq(text, 1, Len(text) - 1)) ELSE text
Strip(text) == RStrip(LStrip(text))

----------------------------------------------------------------------------
(* Values *)

\* What json.loads returns and what structured_output holds: None, a
\* TaskResult record, a dict with other fields, or a list.  RaisedError
\* stands for a call that ends in an exception instead of a value.
PyNone == [k |-> "none", status |-> FALSE, summary |-> <<>>, insights |-> <<>>]
TaskResult(status, summary, insights) ==
    [k |-> "task", status |-> status, summary |-> summary, insights |-> insights]
OtherDict == [k |-> "dict", status |-> FALSE, summary |-> <<>>, insights |-> <<>>]
ListValue == [k |-> "list", status |-> FALSE, summary |-> <<>>, insights |-> <<>>]
RaisedError == [k |-> "raise", status |-> FALSE, summary |-> <<>>, insights |-> <<>>]

JsonTexts == {TaskText, NullText, ListText}
ValueOf(piece) ==
    CASE piece = TaskText -> TaskResult(TRUE, <<Letters(2)>>, <<>>)
      [] piece = NullText -> PyNone
      [] piece = ListText -> ListValue

\* The pieces a JSON string may hold as they are: no quote, no raw newline.
InString(piece) == piece.c \in {"fence", "json", "null", "[1]", "[[[", "x"}
IsObject(text) ==
    /\ Len(text) >= 2 /\ text[1] = ObjHead /\ text[Len(text)] = ObjTail
    /\ \A i \in 2..(Len(text) - 1) : InString(text[i])

\* json.loads(text): the value of a text that is one JSON value with
\* optional whitespace around it.  A text that starts with the deep nesting
\* ends the decoder in a RecursionError; anything else is a
\* JSONDecodeError (ok = FALSE, raised = FALSE).
JsonLoads(text) ==
    IF Len(Strip(text)) = 1 /\ Strip(text)[1] \in JsonTexts
    THEN [ok |-> TRUE, raised |-> FALSE, value |-> ValueOf(Strip(text)[1])]
    ELSE IF IsObject(Strip(text))
    THEN [ok |-> TRUE, raised |-> FALSE,
          value |-> TaskResult(TRUE, SubSeq(Strip(text), 2, Len(Strip(text)) - 1), <<>>)]
    ELSE IF Strip(text) # <<>> /\ Strip(text)[1] = DeepText
    THEN [ok |-> FALSE, raised |-> TRUE, value |-> PyNone]
    ELSE [ok |-> FALSE, raised |-> FALSE, value |-> PyNone]

----------------------------------------------------------------------------
(* _parse_result_json *)

SummaryLimit == 500

Fences(text) == {i \in 1..Len(text) : text[i] = Fence}
Min(S) == CHOOSE x \in S : \A y \in S : x <= y

\* re.search(r"```(?:json)?\s*\n?(.*?)\n?```", result, re.DOTALL): the
\* leftmost opening fence that a later fence closes, and the nearest such
\* closing fence.
HasFenceMatch(text) == Cardinality(Fences(text)) >= 2
OpeningFence(text) == Min(Fences(text))
ClosingFence(text) == Min(Fences(text) \ {OpeningFence(text)})

\* A faulty variant of FenceGroup: the pattern without (?:json)?.
FenceGroupKeepingTag(text) ==
    LET inner == SubSeq(text, OpeningFence(text) + 1, ClosingFence(text) - 1)
        body == LStrip(inner)
    IN  IF body # <<>> /\ body[Len(body)] = Newline
        THEN SubSeq(body, 1, Len(body) - 1) ELSE body

\* group(1) of the match: what lies between the two fences after the greedy
\* (?:json)?\s*\n? and before the closing \n?
FenceGroup(text) ==
    LET inner == SubSeq(text, OpeningFence(text) + 1, ClosingFence(text) - 1)
        untagged == IF inner # <<>> /\ Head(inner) = JsonTag THEN Tail(inner) ELSE inner
        body == LStrip(untagged)
    IN  IF body # <<>> /\ body[Len(body)] = Newline
        THEN SubSeq(body, 1, Len(body) - 1) ELSE body

\* ClaudeCodingAgent._parse_result_json
_parse_result_json(result) ==
    LET block == IF HasFenceMatch(result)
                 THEN JsonLoads(Strip(FenceGroup(result)))
                 ELSE [ok |-> FALSE, raised |-> FALSE, value |-> PyNone]
        whole == JsonLoads(Strip(result))
    IN  IF block.raised THEN RaisedError     \* only JSONDecodeError is caught
        ELSE IF block.ok THEN block.value
        ELSE IF whole.raised THEN RaisedError
        ELSE IF whole.ok THEN whole.value
        ELSE TaskResult(TRUE, TakeChars(result, SummaryLimit), <<>>)

\* _parse_result_json has not returned yet.
NotParsed == [done |-> FALSE, value |-> PyNone]

----------------------------------------------------------------------------
(* Messages *)

\* One character of a parameter string as a piece of text.
CharsToText(s) == [i \in 1..Len(s) |-> [c |-> s[i], n |-> 1]]

Quote == [c |-> "'", n |-> 1]
EscapedNewline == [c |-> "\\n", n |-> 2]
NoneText == [c |-> "None", n |-> 4]
Digit == [c |-> "7", n |-> 1]
Ellipsis == [c |-> "...", n |-> 3]

\* text[-k:] for k > 0
RECURSIVE LastChars(_, _)
LastChars(text, k) ==
    IF text = <<>> \/ k <= 0 THEN <<>>
    ELSE LET last == text[Len(text)]
         IN  IF last.n <= k
             THEN LastChars(SubSeq(text, 1, Len(text) - 1), k - last.n) \o <<last>>
             ELSE <<[last EXCEPT !.n = k]>>

\* text.replace("\n", "\\n")
EscapeNewlines(text) ==
    [i \in 1..Len(text) |-> IF text[i] = Newline THEN EscapedNewline ELSE text[i]]

\* repr(v) of a parameter value
Repr(v) ==
    CASE v.t = "str" -> <<Quote>> \o CharsToText(v.s) \o <<Quote>>
      [] v.t = "int" -> <<Digit>>
      [] OTHER -> <<NoneText>>

\* A content block of a message.  content is the content of a
\* ToolResultBlock: a string, None, or a list given by its str().
NoInput == [file_path |-> Missing, path |-> Missing, command |-> Missing]
ToolUseBlock(name, input) ==
    [type |-> "tool_use", name |-> name, input |-> input, text |-> <<>>,
     content |-> None, is_error |-> FALSE]
TextBlock(text) ==
    [type |-> "text", name |-> "", input |-> NoInput, text |-> text,
     content |-> None, is_error |-> FALSE]
ToolResultBlock(content, is_error) ==
    [type |-> "tool_result", name |-> "", input |-> NoInput, text |-> <<>>,
     content |-> content, is_error |-> is_error]
ThinkingBlock ==
    [type |-> "thinking", name |-> "", input |-> NoInput, text |-> <<>>,
     content |-> None, is_error |-> FALSE]
ListContent(text) == [t |-> "list", s |-> text, n |-> 0]

AssistantMessage(content) ==
    [type |-> "assistant", content |-> content,
     structured_output |-> PyNone, result |-> None]
UserMessage(content) ==
    [type |-> "user", content |-> content,
     structured_output |-> PyNone, result |-> None]
ResultMessage(structured_output, result) ==
    [type |-> "result", content |-> <<>>,
     structured_output |-> structured_output, result |-> result]
SystemMessage ==
    [type |-> "system", content |-> <<>>,
     structured_output |-> PyNone, result |-> None]

----------------------------------------------------------------------------
(* The trace *)

ToolLine(name, args) ==
    [line |-> "[TOOL]", name |-> name, args |-> args, status |-> "", text |-> <<>>]
TextLine(text) ==
    [line |-> "Claude:", name |-> "", args |-> <<>>, status |-> "", text |-> text]
ResultLine(status, display) ==
    [line |-> "->", name |-> "", args |-> <<>>, status |-> status, text |-> display]

ReprLimit == 50
DisplayLimit == 200
DisplayEdge == 100

\* block.input.items(), in the order of the keys
Keys == <<"file_path", "path", "command">>
Items(input) == SelectSeq(Keys, LAMBDA key : input[key] # Missing)

\* A faulty variant of ArgsStr: the representations are not cut.
ArgsStrUncut(input) ==
    [i \in 1..Len(Items(input)) |->
        [key |-> Items(input)[i], value |-> Repr(input[Items(input)[i]])]]

\* ", ".join(f"{k}={repr(v)[:50]}" for k, v in block.input.items())
ArgsStr(input) ==
    [i \in 1..Len(Items(input)) |->
        [key |-> Items(input)[i],
         value |-> TakeChars(Repr(input[Items(input)[i]]), ReprLimit)]]

\* str(content)
PyStr(content) == IF content.t = "none" THEN <<NoneText>> ELSE content.s

\* The display of a ToolResultBlock's content.
Display(content) ==
    IF content.t = "str"
    THEN EscapeNewlines(
             IF StrLen(content.s) > DisplayLimit
             THEN TakeChars(content.s, DisplayEdge) \o <<Ellipsis>>
                      \o LastChars(content.s, DisplayEdge)
             ELSE content.s)
    ELSE TakeChars(PyStr(content), DisplayEdge) \o <<Ellipsis>>
             \o LastChars(PyStr(content), DisplayEdge)

\* The lines one block of an AssistantMessage prints.
AssistantBlockLines(block) ==
    IF block.type = "tool_use" THEN <<ToolLine(block.name, ArgsStr(block.input))>>
    ELSE IF block.type = "text" THEN <<TextLine(block.text)>>
    ELSE <<>>

\* The lines one block of a UserMessage prints.
UserBlockLines(block) ==
    IF block.type = "tool_result"
    THEN <<ResultLine(IF block.is_error THEN "ERROR" ELSE "OK", Display(block.content))>>
    ELSE <<>>

\* A faulty variant of AssistantLines: the blocks are printed last to first.
RECURSIVE AssistantLinesLastFirst(_)
AssistantLinesLastFirst(content) ==
    IF content = <<>> THEN <<>>
    ELSE AssistantLinesLastFirst(Tail(content)) \o AssistantBlockLines(Head(content))

RECURSIVE AssistantLines(_)
AssistantLines(content) ==
    IF content = <<>> THEN <<>>
    ELSE AssistantBlockLines(Head(content)) \o AssistantLines(Tail(content))

RECURSIVE UserLines(_)
UserLines(content) ==
    IF content = <<>> THEN <<>>
    ELSE UserBlockLines(Head(content)) \o UserLines(Tail(content))

----------------------------------------------------------------------------
(* run *)

\* A faulty variant of ExtractResult: the result text is tried before
\* structured_output.
ExtractResultTextFirst(message, previous) ==
    IF Truthy(message.result) THEN _parse_result_json(message.result.s)
    ELSE IF message.structured_output # PyNone THEN message.structured_output
    ELSE previous

\* The ResultMessage branch of run: the new value of final_result.
ExtractResult(message, previous) ==
    IF message.structured_output # PyNone THEN message.structured_output
    ELSE IF Truthy(message.result) THEN _parse_result_json(message.result.s)
    ELSE previous

\* run has not been called.
RunIdle == pc = "idle" /\ stream = <<>> /\ final_result = PyNone /\ trace = <<>>

\* A faulty variant of RunStart: final_result starts as a TaskResult.
RunStartWithResult ==
    /\ pc = "running" /\ stream = <<>> /\ trace = <<>>
    /\ final_result = TaskResult(TRUE, <<>>, <<>>)

\* run up to its loop: final_result = None.
RunStart == pc = "running" /\ stream = <<>> /\ final_result = PyNone /\ trace = <<>>

\* The messages the runtime may yield.
LongCommand == [i \in 1..(ReprLimit + 1) |-> "a"]
AssistantMessages ==
    {AssistantMessage(<<>>),
     AssistantMessage(<<TextBlock(<<Letters(DisplayLimit + 1), Newline>>),
                        ToolUseBlock("Read", [NoInput EXCEPT !.file_path = StrVal(<<"/", "a">>)])>>),
     AssistantMessage(<<ThinkingBlock,
                        ToolUseBlock("Bash", [NoInput EXCEPT !.path = IntVal(7),
                                                             !.command = StrVal(LongCommand)])>>)}
UserMessages ==
    {UserMessage(<<ToolResultBlock(StrVal(<<Letters(DisplayEdge), Newline, Letters(DisplayEdge - 1)>>), FALSE)>>),
     UserMessage(<<ToolResultBlock(StrVal(<<Letters(DisplayEdge + 1), Newline, Letters(DisplayEdge - 1)>>), TRUE),
                   TextBlock(<<Letters(1)>>)>>),
     UserMessage(<<ToolResultBlock(None, FALSE),
                   ToolResultBlock(ListContent(<<Letters(DisplayLimit), Newline>>), TRUE)>>)}
AnotherTask == TaskResult(FALSE, <<Letters(1)>>, <<Letters(1)>>)
StructuredOutputs == {PyNone, AnotherTask, OtherDict}
ResultTexts ==
    {None, StrVal(<<>>), StrVal(<<NullText>>), StrVal(<<ListText>>),
     StrVal(<<Letters(1)>>), StrVal(<<TaskText>>), StrVal(<<DeepText>>),
     StrVal(<<Fence, JsonTag, Newline, TaskText, Newline, Fence>>)}
ResultMessages ==
    {ResultMessage(PyNone, r) : r \in ResultTexts}
        \cup {ResultMessage(so, r) :
                  so \in StructuredOutputs \ {PyNone},
                  r \in {None, StrVal(<<TaskText>>),
                         StrVal(<<Fence, JsonTag, Newline, TaskText, Newline, Fence>>)}}

\* One turn of the loop for an AssistantMessage.
HandleAssistant ==
    /\ pc = "running" /\ Len(stream) < MaxEvents
    /\ \E message \in AssistantMessages :
          /\ stream' = Append(stream, message)
          /\ trace' = trace \o AssistantLines(message.content)
    /\ UNCHANGED <<arbiterVars, extractVars, pc, final_result>>

\* One turn of the loop for a UserMessage.
HandleUser ==
    /\ pc = "running" /\ Len(stream) < MaxEvents
    /\ \E message \in UserMessages :
          /\ stream' = Append(stream, message)
          /\ trace' = trace \o UserLines(message.content)
    /\ UNCHANGED <<arbiterVars, extractVars, pc, final_result>>

\* One turn of the loop for a ResultMessage.  An exception of
\* _parse_result_json leaves run: pc = "raised".
HandleResult ==
    /\ pc = "running" /\ Len(stream) < MaxEvents
    /\ \E message \in ResultMessages :
          /\ stream' = Append(stream, message)
          /\ IF ExtractResult(message, final_result) = RaisedError
             THEN pc' = "raised" /\ final_result' = final_result
             ELSE pc' = pc /\ final_result' = ExtractResult(message, final_result)
    /\ UNCHANGED <<arbiterVars, extractVars, trace>>

\* One turn of the loop for a message of any other class.
HandleOther ==
    /\ pc = "running" /\ Len(stream) < MaxEvents
    /\ stream' = Append(stream, SystemMessage)
    /\ UNCHANGED <<arbiterVars, extractVars, pc, final_result, trace>>

\* query() is exhausted: run returns final_result.
Return ==
    /\ pc = "running"
    /\ pc' = "done"
    /\ UNCHANGED <<arbiterVars, extractVars, stream, final_result, trace>>


----------------------------------------------------------------------------
(* Construction *)

\* The whitelist entries passed to the constructor: "." (the working
\* directory /a), the relative "a" (/a/a) and "/aa".
RootStrings == {<<".">>, <<"a">>, <<"/", "a", "a">>}

\* ClaudeCodingAgent.__init__: both whitelists are resolved once.
ResolvedSet(paths) == {Resolve(p) : p \in paths}

\* No permission request has been made yet.
NoCall == [tool_name |-> "",
           tool_input |-> [file_path |-> Missing, path |-> Missing, command |-> Missing],
           outcome |-> Allow, state |-> "idle"]

\* The runtime has asked for a decision and blocks the tool on it.
Pending(tool_name, tool_input) ==
    [tool_name |-> tool_name, tool_input |-> tool_input,
     outcome |-> Allow, state |-> "pending"]

ParamValues == {StrVal(s) : s \in PathStrings} \cup {None, IntVal(0), IntVal(7), Missing}

\* The parameter mappings the runtime may pass: one alias set, or both
\* aliases set to short values, with or without a command.
FewValues == {v \in ParamValues : v.t # "str" \/ Len(v.s) <= 2}
ToolInputs ==
    {[file_path |-> v, path |-> Missing, command |-> c] :
        v \in ParamValues, c \in {Missing, StrVal(<<"a">>)}}
    \cup {[file_path |-> Missing, path |-> v, command |-> Missing] : v \in ParamValues}
    \cup {[file_path |-> v, path |-> w, command |-> Missing] : v \in FewValues, w \in FewValues}

Construct ==
    /\ \E rs \in SUBSET RootStrings : readable_paths = ResolvedSet(rs)
    /\ \E ws \in SUBSET RootStrings : writable_paths = ResolvedSet(ws)

----------------------------------------------------------------------------
(* The permission callback *)

\* A faulty variant of PermissionCallback: a path that was allowed is added
\* to the readable whitelist.
PermissionCallbackCaching ==
    /\ call.state = "pending"
    /\ call' = [call EXCEPT
                  !.outcome = permission_handler(call.tool_name, call.tool_input,
                                                 readable_paths, writable_paths),
                  !.state = "decided"]
    /\ readable_paths' =
          IF call'.outcome = Allow /\ Truthy(call.tool_input.file_path)
                /\ call.tool_input.file_path.t = "str"
          THEN readable_paths \cup {Resolve(call.tool_input.file_path.s)}
          ELSE readable_paths
    /\ UNCHANGED <<writable_paths, extractVars, runVars>>

\* permission_handler as the runtime's can_use_tool callback: it decides the
\* pending request.
PermissionCallback ==
    /\ call.state = "pending"
    /\ call' = [call EXCEPT
                  !.outcome = permission_handler(call.tool_name, call.tool_input,
                                                 readable_paths, writable_paths),
                  !.state = "decided"]
    /\ UNCHANGED <<readable_paths, writable_paths, extractVars, runVars>>

\* The arbiter alone: one request of any tool with any parameter mapping.
InitArbiter ==
    /\ Construct
    /\ raw = <<>> /\ parsed = NotParsed
    /\ RunIdle
    /\ \E tool_name \in ToolNames, tool_input \in ToolInputs :
           call = Pending(tool_name, tool_input)

NextArbiter == PermissionCallback

SpecArbiter == InitArbiter /\ [][NextArbiter]_vars

----------------------------------------------------------------------------
(* run alone *)

\* main(): both whitelists hold the one relative directory.
InitRun ==
    /\ readable_paths = ResolvedSet({<<"a">>})
    /\ writable_paths = ResolvedSet({<<"a">>})
    /\ call = NoCall
    /\ raw = <<>> /\ parsed = NotParsed
    /\ RunStart

NextRun ==
    \/ HandleAssistant
    \/ HandleUser
    \/ HandleResult
    \/ HandleOther
    \/ Return

SpecRun == InitRun /\ [][NextRun]_vars

----------------------------------------------------------------------------
(* run with the permission callback *)

\* While run is in its loop the runtime asks for decisions on the tool calls
\* of the agent, one at a time, and calls permission_handler between any two
\* turns of the loop.
Requests ==
    {Pending(tool_name, [NoInput EXCEPT !.file_path = v]) :
        tool_name \in {"Read", "Write", "Bash"},
        v \in {StrVal(<<"a">>), StrVal(<<"/">>), IntVal(7), Missing}}

RequestPermission ==
    /\ pc = "running" /\ call.state # "pending"
    /\ \E request \in Requests : call' = request
    /\ UNCHANGED <<readable_paths, writable_paths, extractVars, runVars>>

\* The messages of the runs that are interleaved with the callback.
FewMessages ==
    AssistantMessages \cup UserMessages \cup {SystemMessage}
        \cup {ResultMessage(AnotherTask, None), ResultMessage(PyNone, None),
               ResultMessage(PyNone, StrVal(<<TaskText>>)),
               ResultMessage(PyNone, StrVal(<<DeepText>>))}

TurnOfLoop ==
    /\ NextRun
    /\ stream' # stream => stream'[Len(stream')] \in FewMessages

Init == InitRun

Next == TurnOfLoop \/ RequestPermission \/ PermissionCallback

Spec == Init /\ [][Next]_vars

----------------------------------------------------------------------------
(* The result ladder alone *)

\* The pieces a result text is made of; the long run of letters brings a
\* text near the summary limit.
TextPieces == {Fence, JsonTag, Newline, TaskText, NullText, ListText, DeepText,
               Letters(1), Letters(SummaryLimit - 2)}
\* Texts of up to n pieces, and the JSON objects around the shorter ones.
Texts(n) ==
    StringsUpTo(TextPieces, n)
        \cup {<<ObjHead>> \o text \o <<ObjTail>> : text \in StringsUpTo(TextPieces, n - 2)}

ParseResultJson ==
    /\ ~parsed.done
    /\ parsed' = [done |-> TRUE, value |-> _parse_result_json(raw)]
    /\ UNCHANGED <<arbiterVars, raw, runVars>>

InitExtract ==
    /\ readable_paths = {} /\ writable_paths = {} /\ call = NoCall
    /\ RunIdle
    /\ raw \in Texts(MaxTextLen)
    /\ parsed = NotParsed

NextExtract == ParseResultJson

SpecExtract == InitExtract /\ [][NextExtract]_vars

----------------------------------------------------------------------------
(* Properties of the permission callback *)

Decided == call.state = "decided"
Allowed == call.outcome.behavior = "allow"
Denied == call.outcome.behavior = "deny"

HasPath(v) == v.t = "str" /\ v.s # <<>>

\* The request carries exactly one path, under one of the two aliases.
CarriesOnePath ==
    \/ HasPath(call.tool_input.file_path) /\ call.tool_input.path = Missing
    \/ call.tool_input.file_path = Missing /\ HasPath(call.tool_input.path)

\* That path, as the request gives it, and after resolution.
RequestPath ==
    IF HasPath(call.tool_input.file_path)
    THEN call.tool_input.file_path.s ELSE call.tool_input.path.s
RequestTarget == Resolve(RequestPath)

IsReadCall == call.tool_name \in {"Read", "Grep", "Glob"}
IsWriteCall == call.tool_name \in {"Write", "Edit", "MultiEdit"}
CallScope == IF IsReadCall THEN readable_paths ELSE writable_paths

ProperDescendant(t, r) ==
    Len(r) < Len(t) /\ \A i \in 1..Len(r) : t[i] = r[i]
MemberOrUnder(t, scope) == \E r \in scope : t = r \/ ProperDescendant(t, r)

\* t is a sibling of r whose name starts with r's name (r + "x").
NamePrefixSibling(t, r) ==
    /\ r # <<>> /\ Len(t) = Len(r)
    /\ \A i \in 1..(Len(r) - 1) : t[i] = r[i]
    /\ Len(t[Len(t)]) > Len(r[Len(r)])
    /\ SubSeq(t[Len(t)], 1, Len(r[Len(r)])) = r[Len(r)]

\* C1: for a path-gated tool the containment check is true iff the scope is
\* empty, or the resolved path is a member of the scope, or it is a proper
\* descendant of a member; a name-prefix sibling of the only root and a
\* strict ancestor of it are not allowed.
C1_ContainmentIff ==
    (Decided /\ (IsReadCall \/ IsWriteCall) /\ CarriesOnePath) =>
        /\ Allowed <=> (CallScope = {} \/ MemberOrUnder(RequestTarget, CallScope))
        /\ \A r \in CallScope :
              (CallScope = {r} /\ (NamePrefixSibling(RequestTarget, r)
                                    \/ ProperDescendant(r, RequestTarget)))
                 => ~Allowed

\* A read of /aa is decided while /a is the only readable root.
C1_Witness ==
    /\ Decided /\ call.tool_name = "Read" /\ CarriesOnePath
    /\ readable_paths = {<< <<"a">> >>}
    /\ RequestTarget = << <<"a", "a">> >>
    /\ Denied

\* C2: a read-path tool with a path that is neither a member of a non-empty
\* readScope nor under one is denied, whatever writeScope holds; the message
\* contains the path as given and names the readable whitelist.
C2_ReadDenied ==
    (/\ Decided /\ IsReadCall /\ CarriesOnePath
     /\ readable_paths # {}
     /\ ~MemberOrUnder(RequestTarget, readable_paths)) =>
        /\ Denied
        /\ call.outcome.message.path = RequestPath
        /\ call.outcome.message.tail = " is not in readable whitelist."

\* A Grep outside readScope and inside writeScope is denied.
C2_Witness ==
    /\ Decided /\ call.tool_name = "Grep" /\ CarriesOnePath
    /\ readable_paths # {} /\ ~MemberOrUnder(RequestTarget, readable_paths)
    /\ MemberOrUnder(RequestTarget, writable_paths)
    /\ Denied

\* C3: a write-path tool is allowed iff writeScope is empty or the path is a
\* member of it or under one, independently of readScope; every denial
\* contains the path as given and names the writable whitelist.
C3_WriteIff ==
    (Decided /\ IsWriteCall /\ CarriesOnePath) =>
        /\ Allowed <=> (writable_paths = {} \/ MemberOrUnder(RequestTarget, writable_paths))
        /\ ~Allowed =>
              /\ Denied
              /\ call.outcome.message.path = RequestPath
              /\ call.outcome.message.tail = " is not in writable whitelist."

\* A MultiEdit inside readScope and outside a non-empty writeScope is denied.
C3_Witness ==
    /\ Decided /\ call.tool_name = "MultiEdit" /\ CarriesOnePath
    /\ MemberOrUnder(RequestTarget, readable_paths)
    /\ writable_paths # {} /\ ~MemberOrUnder(RequestTarget, writable_paths)
    /\ Denied

\* C4: a call with neither file_path nor path is allowed, for every tool and
\* every content of the two scopes.
C4_NoPathAllowed ==
    (/\ Decided
     /\ call.tool_input.file_path = Missing
     /\ call.tool_input.path = Missing) => Allowed

\* A Read without a path is decided while neither scope holds the working
\* directory.
C4_Witness ==
    /\ Decided /\ call.tool_name = "Read"
    /\ call.tool_input.file_path = Missing /\ call.tool_input.path = Missing
    /\ readable_paths = {<< <<"a", "a">> >>}
    /\ writable_paths = {<< <<"a", "a">> >>}
    /\ Allowed

\* C5: a tool that is neither a read-path nor a write-path tool is always
\* allowed, for every parameter mapping and every content of the scopes.
C5_UnrestrictedAllowed ==
    (Decided /\ ~IsReadCall /\ ~IsWriteCall) => Allowed

\* C6: every invocation ends in exactly one decision, allow or deny, never
\* in a raised fault.
C6_Total ==
    Decided => (Allowed \/ Denied)

\* A parameter is missing or empty: not given, None, "" or 0.
Empty(v) == v \in {Missing, None, StrVal(<<>>), IntVal(0)}
BothGiven == call.tool_input.file_path # Missing /\ call.tool_input.path # Missing

\* The one parameter arbitrated: file_path unless it is missing or empty.
Candidate ==
    IF Empty(call.tool_input.file_path)
    THEN call.tool_input.path ELSE call.tool_input.file_path

\* C20: one candidate path is arbitrated per call.  When file_path is
\* given and not empty the decision is the one for file_path, whatever path
\* holds; path decides only when file_path is missing or empty; and when
\* both are missing or empty the call is allowed as one without a path.
C20_AliasPrecedence ==
    Decided =>
        /\ (Empty(call.tool_input.file_path) /\ Empty(call.tool_input.path)) => Allowed
        /\ (HasPath(Candidate) /\ (IsReadCall \/ IsWriteCall)) =>
              /\ Allowed <=> (CallScope = {} \/ MemberOrUnder(Resolve(Candidate.s), CallScope))
              /\ Denied => call.outcome.message.path = Candidate.s
        /\ (HasPath(Candidate) /\ ~IsReadCall /\ ~IsWriteCall) => Allowed

\* A Read with file_path inside the readable root /a/a and path outside it
\* has been allowed.
C20_Witness ==
    /\ Decided /\ call.tool_name = "Read" /\ BothGiven
    /\ readable_paths = {<< <<"a">>, <<"a">> >>}
    /\ call.tool_input.path = StrVal(<<"/">>)
    /\ call.tool_input.file_path = StrVal(<<"a">>)
    /\ Allowed

----------------------------------------------------------------------------
(* Properties of the result ladder *)

WithoutNewlines(text) == SelectSeq(text, LAMBDA piece : piece # Newline)

\* The text between two fences is a TaskResult in JSON, with optional
\* whitespace around it and an optional json tag right behind the opening
\* fence.
BlockHoldsTask(inner) ==
    \/ WithoutNewlines(inner) = <<TaskText>>
    \/ WithoutNewlines(inner) = <<JsonTag, TaskText>> /\ inner[1] = JsonTag

\* The fenced blocks of a text: the fences pair up from the left.
FenceAt(text, k) ==
    CHOOSE i \in Fences(text) : Cardinality({j \in Fences(text) : j <= i}) = k
Block(text, b) == SubSeq(text, FenceAt(text, 2 * b - 1) + 1, FenceAt(text, 2 * b) - 1)
Blocks(text) == 1..(Cardinality(Fences(text)) \div 2)

TheTask == TaskResult(TRUE, <<Letters(2)>>, <<>>)

\* C10 as claimed: when some fenced block of raw_text holds a TaskResult,
\* the result is that TaskResult, whatever surrounds or precedes the block.
C10_AnyBlock ==
    (parsed.done /\ \E b \in Blocks(raw) : BlockHoldsTask(Block(raw, b)))
        => parsed.value = TheTask

\* C10 as amended: when the first fenced block of raw_text (the text between
\* the first fence and the next one) holds a TaskResult, the result is that
\* TaskResult, whatever text surrounds the block.
C10_FirstBlock ==
    (parsed.done /\ Blocks(raw) # {} /\ BlockHoldsTask(Block(raw, 1)))
        => parsed.value = TheTask

\* A tagged first block with text before it has been parsed.
C10_Witness ==
    /\ parsed.done
    /\ raw = <<Letters(1), Fence, JsonTag, TaskText, Fence>>
    /\ parsed.value = TheTask

\* raw_text yields a TaskResult from a fenced block or from the whole
\* trimmed text.
YieldsTask(text) ==
    \/ \E b \in Blocks(text) : BlockHoldsTask(Block(text, b))
    \/ WithoutNewlines(text) = <<TaskText>>
    \/ /\ Len(WithoutNewlines(text)) >= 2
       /\ WithoutNewlines(text)[1] = ObjHead
       /\ WithoutNewlines(text)[Len(WithoutNewlines(text))] = ObjTail

\* text[:k], a piece at a time.
FirstChars(text, k) ==
    LET Before(i) == StrLen(SubSeq(text, 1, i - 1))
        whole == {i \in 1..Len(text) : Before(i + 1) <= k}
        cut == {i \in 1..Len(text) : Before(i) < k /\ Before(i + 1) > k}
    IN  [i \in whole \cup cut |->
            IF i \in whole THEN text[i] ELSE [text[i] EXCEPT !.n = k - Before(i)]]

\* C11: when raw_text yields no TaskResult from a fenced block nor as a
\* whole, the result is exactly {status: true, summary: the first 500
\* characters of raw_text, insights: ""}: the summary is raw_text itself
\* when that has at most 500 characters, and never has more than 500.
C11_FallbackRecord ==
    (parsed.done /\ raw # <<>> /\ ~YieldsTask(raw)) =>
        /\ parsed.value = TaskResult(TRUE, FirstChars(raw, SummaryLimit), <<>>)
        /\ StrLen(parsed.value.summary) <= SummaryLimit
        /\ StrLen(raw) <= SummaryLimit => parsed.value.summary = raw

\* The JSON text in a fenced block: what the block holds once the json tag
\* right behind the opening fence and the whitespace around are set aside.
BlockJson(inner) ==
    IF inner # <<>> /\ inner[1] = JsonTag
    THEN WithoutNewlines(Tail(inner)) ELSE WithoutNewlines(inner)
BlockParses(text) ==
    /\ Blocks(text) # {}
    /\ BlockJson(Block(text, 1)) \in {<<TaskText>>, <<NullText>>, <<ListText>>}
WholeIsTask(text) == Strip(text) = <<TaskText>> \/ IsObject(Strip(text))

\* C18: a parse failure at one stage is recovered locally.  When the fenced
\* block fails to parse and the whole trimmed raw_text is a TaskResult, the
\* result is that TaskResult (its summary the text between the two ends);
\* when the fenced block and the whole text both parse, the result is the
\* block's value; and no raw_text makes extraction raise.
C18_LocalRecovery ==
    parsed.done =>
        /\ (Blocks(raw) # {} /\ ~BlockParses(raw) /\ IsObject(Strip(raw)))
              => parsed.value =
                   TaskResult(TRUE, SubSeq(Strip(raw), 2, Len(Strip(raw)) - 1), <<>>)
        /\ (BlockParses(raw) /\ WholeIsTask(raw))
              => parsed.value.k =
                   (CASE BlockJson(Block(raw, 1)) = <<TaskText>> -> "task"
                      [] BlockJson(Block(raw, 1)) = <<NullText>> -> "none"
                      [] BlockJson(Block(raw, 1)) = <<ListText>> -> "list")
        /\ parsed.value # RaisedError

----------------------------------------------------------------------------
(* Properties of run *)

ResultMessagesHandled == {i \in 1..Len(stream) : stream[i].type = "result"}

\* The last message handled was a ResultMessage.
AfterResult == stream # <<>> /\ stream[Len(stream)].type = "result"
LastMessage == stream[Len(stream)]

\* The stream held exactly one ResultMessage, and run has returned.
ReturnedAfterOneResult == pc = "done" /\ Cardinality(ResultMessagesHandled) = 1
TheResultMessage == stream[CHOOSE i \in ResultMessagesHandled : TRUE]

HasStructuredOutput(message) == message.structured_output.k # "none"
HasRawText(message) == message.result.t = "str" /\ message.result.s # <<>>

\* C7: once a ResultMessage with both structured_output A and a result text
\* has been handled, final_result is A, and A is what run returns when the
\* stream ends there.
C7_StructuredOutputWins ==
    (AfterResult /\ HasStructuredOutput(LastMessage) /\ HasRawText(LastMessage))
        => final_result = LastMessage.structured_output

\* run has returned a structured_output although the result text of the
\* same message holds another TaskResult in a fenced block.
C7_Witness ==
    /\ pc = "done" /\ AfterResult
    /\ LastMessage.structured_output = AnotherTask
    /\ LastMessage.result = StrVal(<<Fence, JsonTag, Newline, TaskText, Newline, Fence>>)
    /\ final_result = AnotherTask

\* C8: what run returns for a stream with one ResultMessage is absent iff
\* that message has neither structured_output nor a result text.
C8_AbsentIffNoPayload ==
    ReturnedAfterOneResult =>
        (final_result = PyNone <=>
            (~HasStructuredOutput(TheResultMessage) /\ ~HasRawText(TheResultMessage)))

\* C9: every non-absent value run returns is a TaskResult.
C9_ReturnsTaskResult ==
    (pc = "done" /\ final_result # PyNone) => final_result.k = "task"

MessagesOfType(type) == {i \in 1..Len(stream) : stream[i].type = type}

\* C12: when query() is exhausted and no ResultMessage was among its
\* messages, run returns None, whatever AssistantMessages and UserMessages
\* came before.
C12_NoResultNoValue ==
    (pc = "done" /\ ResultMessagesHandled = {}) => final_result = PyNone

\* run has returned None after an AssistantMessage and a UserMessage that
\* both printed, and no ResultMessage.
C12_Witness ==
    /\ pc = "done" /\ ResultMessagesHandled = {} /\ final_result = PyNone
    /\ MessagesOfType("assistant") # {} /\ MessagesOfType("user") # {}
    /\ Len(trace) >= 3

\* The display the claim C13 gives a content: str(content) when it has at
\* most 200 characters, else its first 100 characters, the ellipsis and
\* its last 100; newlines escaped in both cases.
ClaimedDisplay(content) ==
    LET text == IF content.t = "none" THEN <<NoneText>> ELSE content.s
    IN  EscapeNewlines(
            IF StrLen(text) > DisplayLimit
            THEN TakeChars(text, DisplayEdge) \o <<Ellipsis>> \o LastChars(text, DisplayEdge)
            ELSE text)

\* The ToolResultBlocks of the UserMessage handled last, and the lines it
\* printed: the last lines of the trace.
AfterUser == stream # <<>> /\ LastMessage.type = "user"
ResultBlocks(message) == SelectSeq(message.content, LAMBDA block : block.type = "tool_result")
LastLines(k) == SubSeq(trace, Len(trace) - k + 1, Len(trace))

\* C13: the line of a ToolResultBlock shows ERROR when is_error is set and OK
\* otherwise, and for every content the first 100 characters, the ellipsis
\* and the last 100 characters when the content has more than 200
\* characters, else the content in full, newlines shown as \n either way.
C13_ToolResultLine ==
    AfterUser =>
        LET blocks == ResultBlocks(LastMessage)
            lines == LastLines(Len(blocks))
        IN  /\ Len(trace) >= Len(blocks)
            /\ \A b \in 1..Len(blocks) :
                  /\ lines[b].line = "->"
                  /\ lines[b].status = (IF blocks[b].is_error THEN "ERROR" ELSE "OK")
                  /\ lines[b].text = ClaimedDisplay(blocks[b].content)

\* C14: once a ResultMessage has been handled, no later message is
\* handled: the stream consumed, the result and the trace stay as they are.
C14_ResultIsTerminal ==
    [][ResultMessagesHandled # {} =>
          (stream' = stream /\ final_result' = final_result /\ trace' = trace)]_vars

\* The line the block at position <<i, b>> of the stream prints, if any.
BlockAt(position) == stream[position[1]].content[position[2]]
Prints(position) ==
    \/ stream[position[1]].type = "assistant" /\ BlockAt(position).type \in {"tool_use", "text"}
    \/ stream[position[1]].type = "user" /\ BlockAt(position).type = "tool_result"
PrintingBlocks ==
    UNION {{<<i, b>> : b \in {b \in 1..Len(stream[i].content) : Prints(<<i, b>>)}} :
              i \in 1..Len(stream)}
Before(p, q) == p[1] < q[1] \/ (p[1] = q[1] /\ p[2] <= q[2])
Rank(position) == Cardinality({p \in PrintingBlocks : Before(p, position)})
LineOf(position) ==
    IF stream[position[1]].type = "assistant"
    THEN AssistantBlockLines(BlockAt(position))[1]
    ELSE UserBlockLines(BlockAt(position))[1]

\* C15: the messages are handled in order, one at a time and once each.
\* The trace holds one line for every printing block handled so far, in the
\* order of the messages and, within a message, of its blocks; and a step
\* that takes a message from query() takes exactly the next one and leaves
\* the trace holding the lines of all the messages taken, that one included.
C15_InOrder ==
    /\ [](/\ Len(trace) = Cardinality(PrintingBlocks)
          /\ \A position \in PrintingBlocks : trace[Rank(position)] = LineOf(position))
    /\ [][stream' # stream =>
            /\ Len(stream') = Len(stream) + 1
            /\ SubSeq(stream', 1, Len(stream)) = stream
            /\ SubSeq(trace', 1, Len(trace)) = trace]_vars

\* A UserMessage and then an AssistantMessage with a TextBlock before a
\* ToolUseBlock have been handled: three lines in that order.
C15_Witness ==
    /\ Len(stream) = 2 /\ stream[1].type = "user" /\ stream[2].type = "assistant"
    /\ Len(trace) = 3
    /\ trace[1].line = "->" /\ trace[2].line = "Claude:" /\ trace[3].line = "[TOOL]"

\* The printing blocks of the AssistantMessage handled last; its lines are
\* the last lines of the trace.
AfterAssistant == stream # <<>> /\ LastMessage.type = "assistant"
SpokenBlocks(message) ==
    SelectSeq(message.content, LAMBDA block : block.type \in {"tool_use", "text"})
Given(input) == {key \in DOMAIN input : input[key] # Missing}

\* C17: an AssistantMessage prints one line for each ToolUseBlock, with the
\* tool name and one key=value for every argument, the value being the
\* first 50 characters of the argument's repr (all of it when shorter), and
\* one line for each TextBlock with the text as it is, uncut.
C17_AssistantLines ==
    AfterAssistant =>
        LET blocks == SpokenBlocks(LastMessage)
            lines == LastLines(Len(blocks))
        IN  /\ Len(trace) >= Len(blocks)
            /\ \A b \in 1..Len(blocks) :
                  IF blocks[b].type = "text"
                  THEN lines[b].line = "Claude:" /\ lines[b].text = blocks[b].text
                  ELSE /\ lines[b].line = "[TOOL]" /\ lines[b].name = blocks[b].name
                       /\ Len(lines[b].args) = Cardinality(Given(blocks[b].input))
                       /\ \A key \in Given(blocks[b].input) :
                             \E a \in 1..Len(lines[b].args) :
                                /\ lines[b].args[a].key = key
                                /\ lines[b].args[a].value =
                                      TakeChars(Repr(blocks[b].input[key]), ReprLimit)
                                /\ StrLen(lines[b].args[a].value) <= ReprLimit

\* An AssistantMessage has printed a Bash call whose command has a repr of
\* more than 50 characters, shown cut to 50, next to a short argument shown
\* in full; and one has printed a text of more than 200 characters in full.
C17_Witness ==
    /\ \E i \in 1..Len(trace) :
          /\ trace[i].line = "[TOOL]" /\ trace[i].name = "Bash"
          /\ Len(trace[i].args) = 2
          /\ trace[i].args[1] = [key |-> "path", value |-> <<Digit>>]
          /\ trace[i].args[2].key = "command"
          /\ StrLen(trace[i].args[2].value) = ReprLimit
          /\ trace[i].args[2].value[1] = Quote
          /\ trace[i].args[2].value[ReprLimit] # Quote
    /\ \E i \in 1..Len(trace) :
          /\ trace[i].line = "Claude:"
          /\ trace[i].text = <<Letters(DisplayLimit + 1), Newline>>

\* What run holds as its result after the messages s, computed from s alone.
RECURSIVE ResultOf(_)
ResultOf(s) ==
    IF s = <<>> THEN PyNone
    ELSE LET previous == ResultOf(SubSeq(s, 1, Len(s) - 1))
             message == s[Len(s)]
             new == IF message.structured_output # PyNone THEN message.structured_output
                    ELSE IF message.type = "result" /\ HasRawText(message)
                    THEN _parse_result_json(message.result.s)
                    ELSE previous
         IN  IF new = RaisedError THEN previous ELSE new

\* C16: permission callbacks between the turns of run's loop share no
\* mutable state with it.  No step changes readable_paths or
\* writable_paths; every decision is the one permission_handler gives the
\* request under those same whitelists, so a request is decided alike at
\* every point of the run; a callback step leaves run's state alone and a
\* turn of the loop leaves the request alone; and the result run holds is
\* a function of the messages handled.
C16_NoSharedState ==
    /\ [][/\ readable_paths' = readable_paths
          /\ writable_paths' = writable_paths
          /\ call' # call => runVars' = runVars
          /\ runVars' # runVars => call' = call]_vars
    /\ [](Decided =>
            call.outcome = permission_handler(call.tool_name, call.tool_input,
                                              ResolvedSet({<<"a">>}), ResolvedSet({<<"a">>})))
    /\ [](final_result = ResultOf(stream))

\* run has returned the result of its stream, and a Read outside the
\* whitelist that the runtime asked about during the run has been denied.
C16_Witness ==
    /\ pc = "done" /\ final_result = AnotherTask
    /\ MessagesOfType("assistant") # {}
    /\ Decided /\ Denied /\ call.tool_name = "Read"
    /\ call.tool_input.file_path = StrVal(<<"/">>)

\* C19: for every finite stream run returns.  It is never stopped by a
\* fault: until it has returned it is in its loop, where it can take the
\* next message, of whatever kind, or return when there is none.
C19_RunReturns ==
    pc # "done" => (pc = "running" /\ ENABLED Return)

====
